---- MODULE Spec2Model ----
(***************************************************************************)
(* The ledger of simplechain (Block, Chain) as a state machine.            *)
(*                                                                         *)
(* State: the two sqlite tables, the heap of Block objects the process     *)
(* holds, the Chain instance's fields, and the async calls that are        *)
(* suspended at an await.  Every action is one run-to-completion segment   *)
(* of a method: from its call (or from the settling of the awaited         *)
(* statement) to its next await or its return.  The awaited statement      *)
(* takes effect in the segment that resumes the call, with the arguments   *)
(* that were evaluated when it was issued.                                 *)
(*                                                                         *)
(* The receive side of a Peer (Network/P2P.js) is a second machine in the  *)
(* same module: its buffer and cursor, and the data events of its socket.  *)
(* The ledger and the peer share no state.                                 *)
(***************************************************************************)
EXTENDS Integers, Sequences, FiniteSets, TLC

VARIABLES
    _chain,         \* rows of table chain (i, hash, previousHash, nonce, timestamp, data)
    _anchor,        \* rows of table anchor (i, hash, previousHash)
    blocks,         \* heap: Block objects by reference
    currentBlock,   \* Chain.currentBlock: a reference, or NoBlock (undefined)
    powHashPrefix,  \* Chain.powHashPrefix
    phase,          \* "new" | "seeding" (initialize awaits the genesis insert) | "ready"
    addCalls,       \* add calls suspended at the insert, in issue order
    anchorCalls,    \* anchor calls suspended at the range scan or at the insert
    ret,            \* the most recent return of a public method
    hung,           \* the process spins in _proofOfWork for ever
    restarts,       \* number of process restarts so far
    faults,         \* number of storage failures so far
    covered,        \* history: per anchor row, the scan's lower bound and the rows folded
    quiet,          \* history: anchor returned true and no add has committed since it was called
    race,           \* history: the current pair of overlapping add calls
    _inBuffer,      \* Peer._inBuffer: the receive buffer, a sequence of bytes
    _inCursor,      \* Peer._inCursor
    _eventEmitter,  \* the events of Peer._eventEmitter that have a listener
    wire,           \* bytes the remote side has written and no data event has delivered
    dataRet,        \* how the most recent data event ended
    received,       \* history: the bytes the data events delivered since connect
    handed,         \* history: the messages passed to _processMessage since connect
    overflowed      \* history: a chunk since connect did not fit the buffer

ledgerVars == <<_chain, _anchor, blocks, currentBlock, powHashPrefix, phase, addCalls,
                anchorCalls, ret, hung, restarts, faults, covered, quiet, race>>

peerVars == <<_inBuffer, _inCursor, _eventEmitter, wire, dataRet, received, handed,
              overflowed>>

vars == <<ledgerVars, peerVars>>

---------------------------------------------------------------------------
(* Bounds of the model. *)

\* Block objects one process constructs (new Block), initialize's included
MaxBlocks == 3
\* caller payloads are the strings 1..MaxPayload; 0 is 'GENBLOCK'
MaxPayload == 1
\* new Date() / 1 yields a timestamp in 0..MaxTime
MaxTime == 0
\* the random starting nonce is in 0..maxRandomNonce-1 (876348467 in the source)
maxRandomNonce == 2
\* add is not called once the head's index has reached MaxIndex
MaxIndex == 3
\* calls (add and anchor together) that may be suspended at the same time
MaxCalls == 2
\* storage failures (an INSERT rejected for another reason than a constraint)
MaxFaults == 1
\* process restarts (a new Chain on the same database files)
MaxRestarts == 1
\* number of distinct leading characters of a digest (16 for a hex digest)
HexBase == 3

\* bytes of the receive buffer (10485760 by default in the source)
_bufferSize == 26
\* bytes the remote side has written since connect
MaxStream == 30
\* bytes written and not yet delivered
MaxWire == 27
\* no data event is delivered once this many messages were handed over since connect
MaxHanded == 2

Times == 0..MaxTime
Payloads == 1..MaxPayload
Refs == 1..MaxBlocks
NoBlock == 0

---------------------------------------------------------------------------
(* JavaScript values that reach a hash or a column.                        *)
(* A value is a number or a string; a string is its sequence of character  *)
(* codes.  The two never compare equal (===) and never hash alike.         *)

Num(n) == [t |-> "number", n |-> n, s |-> <<>>]
Str(s) == [t |-> "string", n |-> 0, s |-> s]

\* decimal text of a small integer, as sqlite writes a number into a text column
Digits(n) == IF n < 0 THEN <<45, -n>> ELSE <<n>>

\* a VARCHAR column has TEXT affinity: a number bound to it is stored as its text
ToText(v) == IF v.t = "number" THEN Str(Digits(v.n)) ELSE v

\* a payload is a string: [id] names it, [json] counts how often it was JSON-encoded
Payload(id) == [id |-> id, json |-> 0]

\* JSON.stringify of a string is another string: the text in quotes, escaped
JSONstringify(d) == [d EXCEPT !.json = @ + 1]

---------------------------------------------------------------------------
(* node-object-hash: a digest that is a function of the content alone.     *)
(* The digest string is modelled by its first character followed by an     *)
(* injective encoding of the hashed content (no two contents collide).     *)

Encode(o) ==
    <<o.index, o.timestamp, o.nonce, o.data.id, o.data.json,
      IF o.previousHash.t = "number" THEN 0 ELSE 1,
      o.previousHash.n, Len(o.previousHash.s)>> \o o.previousHash.s

FirstChar(o) ==
    (o.nonce * o.nonce + o.index + o.timestamp + o.data.id + o.data.json
       + Len(o.previousHash.s)) % HexBase

ObjectHash(o) == Str(<<FirstChar(o)>> \o Encode(o))

RECURSIVE Flatten(_)
Flatten(hs) ==
    IF hs = <<>> THEN <<>>
    ELSE <<Len(Head(hs).s)>> \o Head(hs).s \o Flatten(Tail(hs))

\* the digest of a list of rows {hash: h}
ObjectHashRows(hs) == Str(<<Len(hs) % HexBase, Len(hs)>> \o Flatten(hs))

---------------------------------------------------------------------------
(* class Block *)

NoObject ==
    [index |-> 0, timestamp |-> 0, previousHash |-> Num(0), data |-> Payload(0),
     nonce |-> 0, hash |-> Str(<<>>)]

\* a slot of the heap that holds no object yet
Unmade ==
    [made |-> FALSE, built |-> FALSE, data |-> Payload(0), timestamp |-> 0,
     index |-> 0, previousHash |-> Num(0), nonce |-> 0, object |-> NoObject]

\* new Block(data), constructed at time ts
NewBlockObject(data, ts) == [Unmade EXCEPT !.made = TRUE, !.data = data, !.timestamp = ts]

\* Block.hash: the digest of this.object without its hash field
hash(b) ==
    ObjectHash([index |-> b.object.index, timestamp |-> b.object.timestamp,
                previousHash |-> b.object.previousHash, data |-> b.object.data,
                nonce |-> b.object.nonce])

\* Block.build: assigns the fields and this.object in place, then seals the digest
build(b, index, previousHash, nonce) ==
    LET o == [index |-> index, timestamp |-> b.timestamp, previousHash |-> previousHash,
              data |-> b.data, nonce |-> nonce, hash |-> Str(<<>>)]
        b1 == [b EXCEPT !.built = TRUE, !.index = index, !.previousHash = previousHash,
                        !.nonce = nonce, !.object = o]
    IN  [b1 EXCEPT !.object.hash = hash(b1)]

\* an isValid that compares with the digest previousBlock carries, not a recomputed one
isValid_snapshot(b, previousBlock) ==
    IF previousBlock.index + 1 # b.index THEN FALSE
    ELSE IF previousBlock.object.hash # b.previousHash THEN FALSE
    ELSE IF b.object.hash # hash(b) THEN FALSE
    ELSE TRUE

\* Block.isValid
isValid(b, previousBlock) ==
    IF previousBlock.index + 1 # b.index THEN FALSE
    ELSE IF hash(previousBlock) # b.previousHash THEN FALSE
    ELSE IF b.object.hash # hash(b) THEN FALSE
    ELSE TRUE

---------------------------------------------------------------------------
(* class Chain: configuration and the proof-of-work search *)

Null == [null |-> TRUE, str |-> <<>>]
Prefix(s) == [null |-> FALSE, str |-> s]

\* the prefixes a ledger may be constructed with
Prefixes == {Null, Prefix(<<1>>)}

\* block.object.hash.slice(0, prefix.length) === prefix
startsWith(b, str) == SubSeq(b.object.hash.s, 1, Len(str)) = str

\* a loop that raises the nonce by two between two looks at the digest
RECURSIVE search_skips(_, _, _)
search_skips(b, str, steps) ==
    IF startsWith(b, str) \/ steps = 0 THEN b
    ELSE search_skips(build(b, b.index, b.previousHash, b.nonce + 2), str, steps - 1)

\* the while loop of _proofOfWork, unrolled at most steps times
RECURSIVE search(_, _, _)
search(b, str, steps) ==
    IF startsWith(b, str) \/ steps = 0 THEN b
    ELSE search(build(b, b.index, b.previousHash, b.nonce + 1), str, steps - 1)

\* The loop has no exit but a match.  The first character of the digest is
\* periodic in the nonce with period HexBase, so one period decides whether
\* any nonce from the block's own on gives a match.
returns(b, prefix) ==
    \/ prefix.null
    \/ \E k \in 0..(HexBase - 1) :
          startsWith(build(b, b.index, b.previousHash, b.nonce + k), prefix.str)

\* a _proofOfWork whose loop body never runs: the block comes back as sealed
_proofOfWork_noSearch(b, prefix) == b

\* Chain._proofOfWork, for a block on which the loop returns
_proofOfWork(b, prefix) == IF prefix.null THEN b ELSE search(b, prefix.str, HexBase)

---------------------------------------------------------------------------
(* The tables *)

\* the values _addBlockToChain binds, as the columns store them
chainRow(b) ==
    [i |-> b.index, hash |-> hash(b), previousHash |-> ToText(b.previousHash),
     nonce |-> b.nonce, timestamp |-> b.timestamp, data |-> JSONstringify(b.data)]

\* INSERT succeeds unless the storage fails, the primary key i is taken, or
\* the unique index on hash is violated
insertable(table, row, fault) ==
    /\ ~fault
    /\ \A r \in table : r.i # row.i /\ r.hash # row.hash

\* ORDER BY i DESC LIMIT 1, on a table that is not empty
finalRow(table) == CHOOSE r \in table : \A q \in table : q.i <= r.i

\* SELECT hash ... WHERE i > lo AND i <= hi ORDER BY i ASC
RECURSIVE hashesAscending(_)
hashesAscending(rows) ==
    IF rows = {} THEN <<>>
    ELSE LET first == CHOOSE r \in rows : \A q \in rows : r.i <= q.i
         IN  <<first.hash>> \o hashesAscending(rows \ {first})

hashRowsOf(table, lo, hi) == {r \in table : r.i > lo /\ r.i <= hi}

NoRow == [i |-> 0, hash |-> Str(<<>>), previousHash |-> Str(<<>>)]

---------------------------------------------------------------------------
(* Returns and history *)

Ret(op, out, val, again) == [op |-> op, out |-> out, val |-> val, again |-> again]
NoRet == Ret("none", "none", Num(0), FALSE)

NoRace == [st |-> "none", outs |-> <<>>]

\* the free heap slot a constructor takes
FreeRefs == {r \in Refs : ~blocks[r].made}
NextRef == CHOOSE r \in FreeRefs : \A q \in FreeRefs : r <= q

\* the storage fails at most MaxFaults times
Faulted(fault) ==
    /\ fault => faults < MaxFaults
    /\ faults' = IF fault THEN faults + 1 ELSE faults

\* a sequence without its k-th element
Without(seq, k) == SubSeq(seq, 1, k - 1) \o SubSeq(seq, k + 1, Len(seq))

\* what a caller can observe of the head: the reference and the object it names
HeadView ==
    [ref |-> currentBlock,
     blk |-> IF currentBlock = NoBlock THEN Unmade ELSE blocks[currentBlock]]

---------------------------------------------------------------------------
(* class Peer: the wire format and the scan of the receive buffer *)

\* A 32-bit word is the sequence of its four bytes, lowest first.
\* the header word every message starts with, 0xA27CC1A2
_header == <<162, 193, 124, 162>>

\* the number a word stands for; a word of 65536 or more, which is more than
\* any buffer of the model holds, is read as 65536
UInt32(word) ==
    IF word[3] = 0 /\ word[4] = 0 THEN word[1] + 256 * word[2] ELSE 65536

\* writeUInt32LE: the word of n
writeUInt32LE(n) ==
    <<n % 256, (n \div 256) % 256, (n \div 65536) % 256, (n \div 16777216) % 256>>

\* readUInt32LE at an offset the buffer holds four bytes from
readUInt32LE(buf, offset) == SubSeq(buf, offset + 1, offset + 4)

\* readUInt32LE throws a RangeError at any other offset
outOfRange(buf, offset) == offset + 4 > Len(buf)

\* a message on the wire: header word, 12 bytes of command, payload length,
\* 4 bytes of checksum, payload
Message(payload) ==
    _header \o [i \in 1..12 |-> 0] \o writeUInt32LE(Len(payload))
       \o <<0, 0, 0, 0>> \o payload

\* what the remote side writes in one go: a message without payload, one with a
\* payload of one byte, or three bytes that belong to no message
Writes == {Message(<<>>), Message(<<7>>), <<0, 0, 0>>}

\* buf.slice(start, end)
slice(buf, start, end) == SubSeq(buf, start + 1, end)

\* source.copy(target, targetStart, sourceStart, sourceEnd), the result in target
copy(source, target, targetStart, sourceStart, sourceEnd) ==
    [i \in 1..Len(target) |->
        IF i > targetStart /\ i <= targetStart + (sourceEnd - sourceStart)
        THEN source[sourceStart + (i - targetStart)]
        ELSE target[i]]

\* Peer._processMessage.  With a payload it calls readUInt32BE on the hex
\* string _calculateChecksum returns; without one it calls this.emit, which
\* Peer does not define: either call is a TypeError.
_processMessage(message) ==
    LET messageLength == UInt32(readUInt32LE(message, 16))
    IN  IF messageLength > 0 THEN "TypeError" ELSE "TypeError"

\* the while loop of _socketEventData from cursor on: the messages it hands
\* over, the end of the last one that _processMessage returned from, and
\* whether a call threw
RECURSIVE scan(_, _, _, _, _)
scan(buf, inCursor, cursor, messageEnd, out) ==
    IF ~(cursor < inCursor)
    THEN [threw |-> FALSE, messageEnd |-> messageEnd, out |-> out]
    ELSE IF outOfRange(buf, cursor)
    THEN [threw |-> TRUE, messageEnd |-> messageEnd, out |-> out]
    ELSE IF readUInt32LE(buf, cursor) = _header
    THEN LET messageStart == cursor
         IN  IF inCursor > messageStart + 16
             THEN IF outOfRange(buf, messageStart + 16)
                  THEN [threw |-> TRUE, messageEnd |-> messageEnd, out |-> out]
                  ELSE LET messageLength == UInt32(readUInt32LE(buf, messageStart + 16))
                           message == slice(buf, messageStart,
                                            messageStart + messageLength + 24)
                       IN  IF inCursor >= messageStart + messageLength + 24
                           THEN IF _processMessage(message) = "TypeError"
                                THEN [threw |-> TRUE, messageEnd |-> messageEnd,
                                      out |-> Append(out, message)]
                                ELSE scan(buf, inCursor, cursor + messageLength + 24,
                                          messageStart + messageLength + 24,
                                          Append(out, message))
                           ELSE scan(buf, inCursor, cursor + messageLength + 24,
                                     messageEnd, out)
             ELSE scan(buf, inCursor, inCursor, messageEnd, out)
    ELSE scan(buf, inCursor, cursor + 1, messageEnd, out)

\* how a data event ended: it returned or threw, having emitted 'error' or not
DataRet(out, error) == [out |-> out, error |-> error]
NoDataRet == DataRet("none", FALSE)

\* Buffer.alloc(size)
alloc(size) == [i \in 1..size |-> 0]

---------------------------------------------------------------------------
(* Construction and initialize *)

Init ==
    /\ _chain = {}
    /\ _anchor = {}
    /\ blocks = [r \in Refs |-> Unmade]
    /\ currentBlock = NoBlock
    /\ powHashPrefix \in Prefixes
    /\ phase = "new"
    /\ addCalls = <<>>
    /\ anchorCalls = <<>>
    /\ ret = NoRet
    /\ hung = FALSE
    /\ restarts = 0
    /\ faults = 0
    /\ covered = {}
    /\ quiet = FALSE
    /\ race = NoRace
    /\ _inBuffer = alloc(_bufferSize)
    /\ _inCursor = 0
    /\ _eventEmitter = {}
    /\ wire = <<>>
    /\ dataRet = NoDataRet
    /\ received = <<>>
    /\ handed = <<>>
    /\ overflowed = FALSE

\* an initialize that runs the nonce search on the genesis block as add does
initializeGenesis_searched(ts) ==
    /\ UNCHANGED peerVars
    /\ phase = "new" /\ ~hung
    /\ _chain = {}
    /\ FreeRefs # {}
    /\ LET g0 == build(NewBlockObject(Payload(0), ts), 0, Num(-1), 0)
           g  == search(g0, powHashPrefix.str, HexBase)
       IN  /\ blocks' = [blocks EXCEPT ![NextRef] = g]
           /\ currentBlock' = NextRef
    /\ phase' = "seeding"
    /\ UNCHANGED <<_chain, _anchor, powHashPrefix, addCalls, anchorCalls, ret, hung,
                   restarts, faults, covered, quiet, race>>

\* initialize(true) on an empty chain table: the genesis block becomes the head
\* and its insert is awaited
initializeGenesis(ts) ==
    /\ UNCHANGED peerVars
    /\ phase = "new" /\ ~hung
    /\ _chain = {}
    /\ FreeRefs # {}
    /\ LET g0 == build(NewBlockObject(Payload(0), ts), 0, Num(-1), 0)
           g  == [g0 EXCEPT !.object.hash = hash(g0)]
       IN  /\ blocks' = [blocks EXCEPT ![NextRef] = g]
           /\ currentBlock' = NextRef
    /\ phase' = "seeding"
    /\ UNCHANGED <<_chain, _anchor, powHashPrefix, addCalls, anchorCalls, ret, hung,
                   restarts, faults, covered, quiet, race>>

\* the genesis insert settles; initialize ignores its result and returns true
initializeSeeded(fault) ==
    /\ UNCHANGED peerVars
    /\ phase = "seeding" /\ ~hung
    /\ Faulted(fault)
    /\ LET row == chainRow(blocks[currentBlock])
       IN  _chain' = IF insertable(_chain, row, fault) THEN _chain \cup {row} ELSE _chain
    /\ phase' = "ready"
    /\ ret' = Ret("initialize", "true", Num(0), FALSE)
    /\ UNCHANGED <<_anchor, blocks, currentBlock, powHashPrefix, addCalls, anchorCalls,
                   hung, restarts, covered, quiet, race>>

\* initialize(true) on a chain table with rows: the final row is loaded as the head
initializeReload ==
    /\ UNCHANGED peerVars
    /\ phase = "new" /\ ~hung
    /\ _chain # {}
    /\ FreeRefs # {}
    /\ LET row == finalRow(_chain)
           b0  == build(NewBlockObject(row.data, row.timestamp), row.i,
                        row.previousHash, row.nonce)
           b1  == [b0 EXCEPT !.timestamp = row.timestamp,
                             !.object.timestamp = row.timestamp]
           b2  == [b1 EXCEPT !.object.hash = hash(b1)]
       IN  /\ blocks' = [blocks EXCEPT ![NextRef] = b2]
           /\ currentBlock' = NextRef
    /\ phase' = "ready"
    /\ ret' = Ret("initialize", "true", Num(0), FALSE)
    /\ UNCHANGED <<_chain, _anchor, powHashPrefix, addCalls, anchorCalls, hung,
                   restarts, faults, covered, quiet, race>>

\* initialize(false): the tables are opened and nothing is loaded
initializeNoSeed ==
    /\ UNCHANGED peerVars
    /\ phase = "new" /\ ~hung
    /\ phase' = "ready"
    /\ ret' = Ret("initialize", "true", Num(0), FALSE)
    /\ UNCHANGED <<_chain, _anchor, blocks, currentBlock, powHashPrefix, addCalls,
                   anchorCalls, hung, restarts, faults, covered, quiet, race>>

\* The process ends and a new one constructs a Chain on the same database files:
\* the heap is gone, the tables stay.  A process that ends while calls are
\* suspended leaves the tables as they were before those calls were issued,
\* so the restart is taken from the states with no suspended call.
Restart ==
    /\ UNCHANGED peerVars
    /\ phase = "ready" /\ ~hung
    /\ addCalls = <<>> /\ anchorCalls = <<>>
    /\ restarts < MaxRestarts
    /\ restarts' = restarts + 1
    /\ blocks' = [r \in Refs |-> Unmade]
    /\ currentBlock' = NoBlock
    /\ phase' = "new"
    /\ addCalls' = <<>>
    /\ anchorCalls' = <<>>
    /\ ret' = NoRet
    /\ quiet' = FALSE
    /\ race' = NoRace
    /\ UNCHANGED <<_chain, _anchor, powHashPrefix, hung, faults, covered>>

\* the caller constructs a block, new Block(data), once it has sealed the last one
NewBlock(d, ts) ==
    /\ UNCHANGED peerVars
    /\ phase = "ready" /\ ~hung
    /\ FreeRefs # {}
    /\ \A r \in Refs : blocks[r].made => blocks[r].built
    /\ blocks' = [blocks EXCEPT ![NextRef] = NewBlockObject(Payload(d), ts)]
    /\ UNCHANGED <<_chain, _anchor, currentBlock, powHashPrefix, phase, addCalls,
                   anchorCalls, ret, hung, restarts, faults, covered, quiet, race>>

---------------------------------------------------------------------------
(* add *)

\* the heap once add has sealed block b with starting nonce r and searched:
\* build and _proofOfWork change the object in place
sealedHeap(b, r) ==
    LET head   == blocks[currentBlock]
        sealed == build(blocks[b], head.index + 1, hash(head), r)
    IN  [blocks EXCEPT ![b] = _proofOfWork(sealed, powHashPrefix)]

\* whether the search add runs on block b with starting nonce r returns
searchReturns(b, r) ==
    LET head == blocks[currentBlock]
    IN  returns(build(blocks[b], head.index + 1, hash(head), r), powHashPrefix)

\* the history of overlapping add calls, when a call is suspended (row is what
\* it inserts) or returns at once (suspends = FALSE)
raceOnCall(suspends, row) ==
    IF ~suspends THEN [race EXCEPT !.st = "spoiled"]
    ELSE IF addCalls = <<>> THEN NoRace
    ELSE IF /\ race.st = "none"
            /\ Len(addCalls) = 1
            /\ addCalls[1].row.i = row.i
         THEN [st |-> "open", outs |-> <<>>]
    ELSE [race EXCEPT !.st = "spoiled"]

\* The Block objects the caller passes to add: one it has not sealed yet, the
\* head object, or one that a suspended add holds.  (Any other object sealed
\* before is rebuilt by add as a new one with its data and timestamp would be.)
Candidates ==
    {b \in Refs : /\ blocks[b].made
                  /\ \/ ~blocks[b].built
                     \/ b = currentBlock
                     \/ \E k \in DOMAIN addCalls : addCalls[k].blk = b}

\* add(block) without a head: reading this.currentBlock.index throws
addThrows(b) ==
    /\ UNCHANGED peerVars
    /\ phase = "ready" /\ ~hung
    /\ b \in Candidates
    /\ currentBlock = NoBlock
    /\ ret' = Ret("add", "throw", Num(0), FALSE)
    /\ UNCHANGED <<_chain, _anchor, blocks, currentBlock, powHashPrefix, phase,
                   addCalls, anchorCalls, hung, restarts, faults, covered, quiet, race>>

\* add(block) whose search finds no nonce: the loop never ends and nothing
\* else of the process runs again
addHangs(b, r) ==
    /\ UNCHANGED peerVars
    /\ phase = "ready" /\ ~hung
    /\ b \in Candidates
    /\ currentBlock # NoBlock
    /\ blocks[currentBlock].index < MaxIndex
    /\ ~searchReturns(b, r)
    /\ hung' = TRUE
    /\ UNCHANGED <<_chain, _anchor, blocks, currentBlock, powHashPrefix, phase,
                   addCalls, anchorCalls, ret, restarts, faults, covered, quiet, race>>

\* add(block), from the call to the await of the insert, or to return false
add(b, r) ==
    /\ UNCHANGED peerVars
    /\ phase = "ready" /\ ~hung
    /\ b \in Candidates
    /\ currentBlock # NoBlock
    /\ blocks[currentBlock].index < MaxIndex
    /\ Len(addCalls) + Len(anchorCalls) < MaxCalls
    /\ searchReturns(b, r)
    /\ LET heap == sealedHeap(b, r)
           row  == chainRow(heap[b])
       IN  /\ blocks' = heap
           /\ IF isValid(heap[b], heap[currentBlock])
              THEN /\ addCalls' = Append([k \in DOMAIN addCalls |->
                                             [addCalls[k] EXCEPT !.raced =
                                                 raceOnCall(TRUE, row).st = "open"]],
                                         [blk |-> b, row |-> row, start |-> r,
                                          raced |-> raceOnCall(TRUE, row).st = "open"])
                   /\ race' = raceOnCall(TRUE, row)
                   /\ ret' = ret
              ELSE /\ addCalls' = addCalls
                   /\ race' = raceOnCall(FALSE, row)
                   /\ ret' = Ret("add", "false", Num(0), FALSE)
    /\ UNCHANGED <<_chain, _anchor, currentBlock, powHashPrefix, phase, anchorCalls,
                   hung, restarts, faults, covered, quiet>>

\* the insert of the k-th suspended add settles and add returns
addSettled(k, fault) ==
    /\ UNCHANGED peerVars
    /\ phase = "ready" /\ ~hung
    /\ Faulted(fault)
    /\ k \in DOMAIN addCalls
    /\ LET c  == addCalls[k]
           ok == insertable(_chain, c.row, fault)
       IN  /\ addCalls' = Without(addCalls, k)
           /\ race' = IF c.raced /\ race.st = "open"
                      THEN [race EXCEPT !.outs =
                                   Append(@, [ok |-> ok, blk |-> c.blk, row |-> c.row])]
                      ELSE race
           /\ IF ok
              THEN /\ _chain' = _chain \cup {c.row}
                   /\ currentBlock' = c.blk
                   /\ ret' = Ret("add", "value", blocks[c.blk].object.hash, FALSE)
                   /\ quiet' = FALSE
                   /\ anchorCalls' = [j \in DOMAIN anchorCalls |->
                                         [anchorCalls[j] EXCEPT !.again = FALSE, !.clean = FALSE]]
              ELSE /\ ret' = Ret("add", "false", Num(0), FALSE)
                   /\ UNCHANGED <<_chain, currentBlock, quiet, anchorCalls>>
    /\ UNCHANGED <<_anchor, blocks, powHashPrefix, phase, hung, restarts, covered>>

---------------------------------------------------------------------------
(* anchor *)

\* anchor(), from the call through the read of the latest anchor to the await
\* of the range scan, whose bounds are evaluated here
anchor ==
    /\ UNCHANGED peerVars
    /\ phase = "ready" /\ ~hung
    /\ Len(addCalls) + Len(anchorCalls) < MaxCalls
    /\ LET previousAnchor == IF _anchor = {} THEN 0 ELSE finalRow(_anchor).i
           previoushash   == IF _anchor = {} THEN Num(-1) ELSE finalRow(_anchor).hash
       IN  IF currentBlock = NoBlock
           THEN /\ ret' = Ret("anchor", "throw", Num(0), quiet)
                /\ anchorCalls' = anchorCalls
           ELSE /\ ret' = ret
                /\ anchorCalls' = Append(anchorCalls,
                       [pc |-> "scan", previousAnchor |-> previousAnchor,
                        previoushash |-> previoushash,
                        upTo |-> blocks[currentBlock].index,
                        row |-> NoRow, folded |-> {}, again |-> quiet, clean |-> TRUE])
    /\ UNCHANGED <<_chain, _anchor, blocks, currentBlock, powHashPrefix, phase,
                   addCalls, hung, restarts, faults, covered, quiet, race>>

\* the range scan of the k-th suspended anchor settles: return false on no rows,
\* else the insert is issued with the head's index as it is now
anchorScanned(k) ==
    /\ UNCHANGED peerVars
    /\ phase = "ready" /\ ~hung
    /\ k \in DOMAIN anchorCalls
    /\ anchorCalls[k].pc = "scan"
    /\ LET c        == anchorCalls[k]
           rows     == hashRowsOf(_chain, c.previousAnchor, c.upTo)
           hashRows == hashesAscending(rows)
       IN  IF Len(hashRows) > 0
           THEN /\ anchorCalls' = [anchorCalls EXCEPT ![k] =
                       [c EXCEPT !.pc = "insert",
                                 !.row = [i |-> blocks[currentBlock].index,
                                          hash |-> ObjectHashRows(hashRows),
                                          previousHash |-> ToText(c.previoushash)],
                                 !.folded = {r.i : r \in rows}]]
                /\ ret' = ret
           ELSE /\ anchorCalls' = Without(anchorCalls, k)
                /\ ret' = Ret("anchor", "false", Num(0), c.again)
    /\ UNCHANGED <<_chain, _anchor, blocks, currentBlock, powHashPrefix, phase,
                   addCalls, hung, restarts, faults, covered, quiet, race>>

\* an anchor whose statement is INSERT OR REPLACE: the rows in its way are deleted
anchorInserted_replace(k, fault) ==
    /\ UNCHANGED peerVars
    /\ phase = "ready" /\ ~hung
    /\ Faulted(fault)
    /\ k \in DOMAIN anchorCalls
    /\ anchorCalls[k].pc = "insert"
    /\ LET c == anchorCalls[k]
       IN  /\ anchorCalls' = Without(anchorCalls, k)
           /\ IF ~fault
              THEN /\ _anchor' = {r \in _anchor : r.i # c.row.i /\ r.hash # c.row.hash}
                                    \cup {c.row}
                   /\ covered' = covered \cup
                          {[i |-> c.row.i, lo |-> c.previousAnchor + 1, folded |-> c.folded]}
                   /\ ret' = Ret("anchor", "true", Num(0), c.again)
                   /\ quiet' = c.clean
              ELSE /\ ret' = Ret("anchor", "false", Num(0), c.again)
                   /\ UNCHANGED <<_anchor, covered, quiet>>
    /\ UNCHANGED <<_chain, blocks, currentBlock, powHashPrefix, phase, addCalls, hung,
                   restarts, race>>

\* the insert of the k-th suspended anchor settles and anchor returns
anchorInserted(k, fault) ==
    /\ UNCHANGED peerVars
    /\ phase = "ready" /\ ~hung
    /\ Faulted(fault)
    /\ k \in DOMAIN anchorCalls
    /\ anchorCalls[k].pc = "insert"
    /\ LET c == anchorCalls[k]
       IN  /\ anchorCalls' = Without(anchorCalls, k)
           /\ IF insertable(_anchor, c.row, fault)
              THEN /\ _anchor' = _anchor \cup {c.row}
                   /\ covered' = covered \cup
                          {[i |-> c.row.i, lo |-> c.previousAnchor + 1, folded |-> c.folded]}
                   /\ ret' = Ret("anchor", "true", Num(0), c.again)
                   /\ quiet' = c.clean
              ELSE /\ ret' = Ret("anchor", "false", Num(0), c.again)
                   /\ UNCHANGED <<_anchor, covered, quiet>>
    /\ UNCHANGED <<_chain, blocks, currentBlock, powHashPrefix, phase, addCalls, hung,
                   restarts, race>>

\* get length, on a ledger with a head
length == blocks[currentBlock].index + 1

---------------------------------------------------------------------------
(* The caller's own use of Block objects *)

\* the plain objects a caller holds of sealed blocks: an object as sealed, one
\* whose data was changed, one that carries the digest of another block
StoredObjects ==
    LET sealed == {blocks[s].object : s \in {r \in Refs : blocks[r].built}}
    IN  sealed
          \cup {[o EXCEPT !.data = Payload(d)] : o \in sealed, d \in Payloads}
          \cup {[o EXCEPT !.hash = q.hash] : o \in sealed, q \in sealed}

\* new Block(data, o) with an object o: the object is taken as it is
NewBlockFrom(o) ==
    /\ UNCHANGED peerVars
    /\ phase = "ready" /\ ~hung
    /\ FreeRefs # {}
    /\ o \in StoredObjects
    /\ blocks' = [blocks EXCEPT ![NextRef] =
                     [Unmade EXCEPT !.made = TRUE, !.built = TRUE, !.object = o,
                                    !.index = o.index, !.previousHash = o.previousHash,
                                    !.nonce = o.nonce]]
    /\ UNCHANGED <<_chain, _anchor, currentBlock, powHashPrefix, phase, addCalls,
                   anchorCalls, ret, hung, restarts, faults, covered, quiet, race>>

\* the caller assigns block.data = d, another payload, on a sealed block
Tamper(b, d) ==
    /\ UNCHANGED peerVars
    /\ phase = "ready" /\ ~hung
    /\ blocks[b].built
    /\ Payload(d) # blocks[b].data
    /\ blocks' = [blocks EXCEPT ![b].data = Payload(d)]
    /\ UNCHANGED <<_chain, _anchor, currentBlock, powHashPrefix, phase, addCalls,
                   anchorCalls, ret, hung, restarts, faults, covered, quiet, race>>

\* the caller calls b.isValid(p) on two sealed blocks
callIsValid(b, p) ==
    /\ UNCHANGED peerVars
    /\ phase = "ready" /\ ~hung
    /\ blocks[b].built /\ blocks[p].built
    /\ ret' = Ret("isValid", IF isValid(blocks[b], blocks[p]) THEN "true" ELSE "false",
                  Num(0), FALSE)
    /\ UNCHANGED <<_chain, _anchor, blocks, currentBlock, powHashPrefix, phase,
                   addCalls, anchorCalls, hung, restarts, faults, covered, quiet, race>>

---------------------------------------------------------------------------
(* class Peer: the socket's events and the caller's calls *)

\* the remote side writes w to the connection
remoteWrites(w) ==
    /\ Len(received) + Len(wire) + Len(w) <= MaxStream
    /\ Len(wire) + Len(w) <= MaxWire
    /\ wire' = wire \o w
    /\ UNCHANGED <<_inBuffer, _inCursor, _eventEmitter, dataRet, received, handed,
                   overflowed>>
    /\ UNCHANGED ledgerVars

\* peer.on('error', callback)
on ==
    /\ "error" \notin _eventEmitter
    /\ _eventEmitter' = _eventEmitter \cup {"error"}
    /\ UNCHANGED <<_inBuffer, _inCursor, wire, dataRet, received, handed, overflowed>>
    /\ UNCHANGED ledgerVars

\* Peer._socketEventData(data), data being the next n bytes of the connection.
\* emit('error') throws when 'error' has no listener.  An exception leaves the
\* handler where it is thrown; the process goes on when it handles uncaught
\* exceptions.
_socketEventData(n) ==
    /\ n \in 0..Len(wire)
    /\ Len(handed) < MaxHanded
    /\ LET data == SubSeq(wire, 1, n)
       IN  /\ wire' = SubSeq(wire, n + 1, Len(wire))
           /\ received' = received \o data
           /\ IF Len(data) + _inCursor > Len(_inBuffer)
              THEN /\ overflowed' = TRUE
                   /\ IF "error" \in _eventEmitter
                      THEN /\ _inCursor' = Len(_inBuffer) + 1
                           /\ dataRet' = DataRet("return", TRUE)
                      ELSE /\ _inCursor' = _inCursor
                           /\ dataRet' = DataRet("throw", TRUE)
                   /\ UNCHANGED <<_inBuffer, handed>>
              ELSE LET buf      == copy(data, _inBuffer, _inCursor, 0, Len(data))
                       inCursor == _inCursor + Len(data)
                       end      == scan(buf, inCursor, 0, 0, <<>>)
                   IN  /\ overflowed' = overflowed
                       /\ IF inCursor < 20
                          THEN /\ _inBuffer' = buf
                               /\ _inCursor' = inCursor
                               /\ handed' = handed
                               /\ dataRet' = DataRet("return", FALSE)
                          ELSE /\ handed' = handed \o end.out
                               /\ IF end.threw
                                  THEN /\ _inBuffer' = buf
                                       /\ _inCursor' = inCursor
                                       /\ dataRet' = DataRet("throw", FALSE)
                                  ELSE /\ dataRet' = DataRet("return", FALSE)
                                       /\ IF end.messageEnd > 0
                                          THEN /\ _inBuffer' = copy(buf, buf, 0,
                                                                    end.messageEnd, inCursor)
                                               /\ _inCursor' = inCursor - end.messageEnd
                                          ELSE /\ _inBuffer' = buf
                                               /\ _inCursor' = inCursor
    /\ UNCHANGED _eventEmitter
    /\ UNCHANGED ledgerVars

\* Peer.connect() on a peer that has its socket: a new buffer, the cursor at 0
\* (_state, which no handler reads, is left out)
connect ==
    /\ _inBuffer' = alloc(_bufferSize)
    /\ _inCursor' = 0
    /\ received' = <<>>
    /\ handed' = <<>>
    /\ overflowed' = FALSE
    /\ dataRet' = NoDataRet
    /\ UNCHANGED <<_eventEmitter, wire>>
    /\ UNCHANGED ledgerVars

---------------------------------------------------------------------------

\* the ledger alone: initialize, restart, the caller's blocks and add
NextLedger ==
    \/ \E ts \in Times : initializeGenesis(ts)
    \/ \E fault \in BOOLEAN : initializeSeeded(fault)
    \/ initializeReload
    \/ initializeNoSeed
    \/ Restart
    \/ \E d \in Payloads, ts \in Times : NewBlock(d, ts)
    \/ \E b \in Refs : addThrows(b)
    \/ \E b \in Refs, r \in 0..(maxRandomNonce - 1) : addHangs(b, r)
    \/ \E b \in Refs, r \in 0..(maxRandomNonce - 1) : add(b, r)
    \/ \E k \in 1..MaxCalls, fault \in BOOLEAN : addSettled(k, fault)

SpecLedger == Init /\ [][NextLedger]_vars

\* The anchor compactor on a ledger that one process seeds and appends to.
\* anchor reads no nonce and no prefix: every add starts its nonce at 0 and
\* the ledger is constructed without a prefix; only anchor's own insert fails.
NextAnchor ==
    \/ \E ts \in Times : initializeGenesis(ts)
    \/ initializeSeeded(FALSE)
    \/ \E d \in Payloads, ts \in Times : NewBlock(d, ts)
    \/ \E b \in Refs : add(b, 0)
    \/ \E k \in 1..MaxCalls : addSettled(k, FALSE)
    \/ anchor
    \/ \E k \in 1..MaxCalls : anchorScanned(k)
    \/ \E k \in 1..MaxCalls, fault \in BOOLEAN : anchorInserted(k, fault)

\* the ledger new Chain(dbPath, ..., null) constructs
InitAnchor == Init /\ powHashPrefix = Null

SpecAnchor == InitAnchor /\ [][NextAnchor]_vars

\* Block objects in the caller's hands, on a ledger without a prefix that one
\* process seeds and appends to: the caller copies, changes and validates them.
NextBlock ==
    \/ \E ts \in Times : initializeGenesis(ts)
    \/ initializeSeeded(FALSE)
    \/ \E d \in Payloads, ts \in Times : NewBlock(d, ts)
    \/ \E b \in Refs : add(b, 0)
    \/ \E k \in 1..MaxCalls : addSettled(k, FALSE)
    \/ \E o \in StoredObjects : NewBlockFrom(o)
    \/ \E b \in Refs, d \in 0..MaxPayload : Tamper(b, d)
    \/ \E b, p \in Refs : callIsValid(b, p)

SpecBlock == InitAnchor /\ [][NextBlock]_vars

\* The receive side of a peer: the remote side writes, the socket delivers
\* what was written in chunks of any length, the caller listens and reconnects.
NextPeer ==
    \/ \E w \in Writes : remoteWrites(w)
    \/ on
    \/ \E n \in 0..MaxWire : _socketEventData(n)
    \/ connect

SpecPeer == InitAnchor /\ [][NextPeer]_vars

---------------------------------------------------------------------------
(* Properties of the ledger (SpecLedger) *)

\* the rows of the chain table are linked from genesis on without a gap
Linked(table) ==
    /\ {r.i : r \in table} = 0..(Cardinality(table) - 1)
    /\ \A r \in table : r.i > 0 =>
          \E p \in table : p.i = r.i - 1 /\ r.previousHash = p.hash

\* C1: after initialize(true) on an empty store and any add calls, the rows
\* have the indices 0..n without gap or duplicate, and every row's
\* previousHash is the digest committed for the row before it.  (Stated for
\* the runs in which the storage never fails.)
C1_RowsLinkedFromGenesis ==
    (phase = "ready" /\ restarts = 0 /\ faults = 0 /\ currentBlock # NoBlock)
        => Linked(_chain)

\* a step in which add returns false
addReturnsFalse ==
    \/ \E b \in Refs, r \in 0..(maxRandomNonce - 1) : add(b, r) /\ addCalls' = addCalls
    \/ \E k \in 1..MaxCalls, fault \in BOOLEAN :
          addSettled(k, fault) /\ _chain' = _chain

\* C2: whenever add returns the failure signal, the head reference and the
\* head block's fields (and so its recomputed digest) are as before, for every
\* candidate block object, the head object itself included.
C2_FailedAddLeavesHead == [][addReturnsFalse => HeadView' = HeadView]_vars

\* C3: once initialize(true) has returned, the head's index is the index of
\* an existing row, also when the genesis insert or an add insert failed.
C3_HeadHasRow ==
    (phase = "ready" /\ currentBlock # NoBlock)
        => \E r \in _chain : r.i = blocks[currentBlock].index

\* C4: of two overlapping add calls sealed against the same head at most one
\* commits a row and the other returns false, no two rows share an index, and
\* after both have returned the head is the block that was committed.
C4_OverlappingAddsOneCommits ==
    (race.st = "open" /\ Len(race.outs) = 2) =>
        /\ ~(race.outs[1].ok /\ race.outs[2].ok)
        /\ \A r, q \in _chain : r.i = q.i => r = q
        /\ \A j \in 1..2 : race.outs[j].ok =>
              /\ currentBlock # NoBlock
              /\ chainRow(blocks[currentBlock]) = race.outs[j].row

\* C5: initialize(true) on a chain table with rows loads a head with the
\* index, previousHash, nonce, timestamp and payload of the final row, whose
\* recomputed digest is the digest stored in that row.
C5_ReloadReproducesDigest ==
    [][initializeReload =>
          LET row == finalRow(_chain)
              h   == blocks'[currentBlock']
          IN  /\ h.index = row.i
              /\ h.previousHash = row.previousHash
              /\ h.nonce = row.nonce
              /\ h.timestamp = row.timestamp
              /\ h.data = row.data
              /\ hash(h) = row.hash]_vars

\* C6: for every value of seed, once initialize has returned there is a head:
\* the committed genesis block or the final row of the chain table.  (Stated
\* for the runs in which the storage never fails.)
C6_InitializeLeavesHead ==
    (phase = "ready" /\ ret.op = "initialize" /\ faults = 0) =>
        /\ currentBlock # NoBlock
        /\ _chain # {}
        /\ blocks[currentBlock].index = finalRow(_chain).i

\* the digest stored in a row starts with the configured prefix
rowHasPrefix(r) ==
    SubSeq(r.hash.s, 1, Len(powHashPrefix.str)) = powHashPrefix.str

\* C7 as stated: with a prefix configured, every committed block's digest
\* starts with it.
C7_EveryRowHasPrefix ==
    ~powHashPrefix.null => \A r \in _chain : rowHasPrefix(r)

\* C7 as amended: with a prefix configured, every block that add commits
\* (every row but genesis, which is committed without a search) has a digest
\* that starts with it; without a prefix add runs no search: it never spins
\* and the nonce it inserts is the starting nonce.
C7_AddedRowsHavePrefix ==
    /\ ~powHashPrefix.null => \A r \in _chain : r.i >= 1 => rowHasPrefix(r)
    /\ powHashPrefix.null =>
          /\ ~hung
          /\ \A k \in DOMAIN addCalls : addCalls[k].row.nonce = addCalls[k].start

\* a committed row whose nonce the search has raised beyond every starting nonce
C7_Witness ==
    /\ ~powHashPrefix.null
    /\ \E r \in _chain : r.i >= 1 /\ r.nonce >= maxRandomNonce /\ rowHasPrefix(r)

---------------------------------------------------------------------------
(* Properties of the anchor compactor (SpecAnchor) *)

\* the history entry of an anchor row
coverOf(a) == CHOOSE c \in covered : c.i = a.i

\* the anchor row before a in the order of the index, when there is one
before(a) == {p \in _anchor : p.i < a.i /\ \A q \in _anchor : q.i < a.i => q.i <= p.i}

\* C8: in the order of the index, every anchor's previousHash is the digest
\* of the anchor before it (the sentinel for the first alone) and its range
\* starts right after that anchor's index.
C8_AnchorsChained ==
    \A a \in _anchor :
        IF before(a) = {}
        THEN a.previousHash = ToText(Num(-1))
        ELSE \A p \in before(a) :
                /\ a.previousHash = p.hash
                /\ coverOf(a).lo = p.i + 1

\* C9: an anchor row's index is the index of the last block folded into it;
\* the ranges do not overlap, and every committed block with an index in
\* 1..(latest anchor index) is folded into exactly one anchor.
C9_AnchorIndexIsLastFolded ==
    /\ \A c \in covered : \A j \in c.folded : j <= c.i
    /\ \A c \in covered : c.i \in c.folded
    /\ \A c, d \in covered : c # d => c.folded \cap d.folded = {}
    /\ \A r \in _chain :
          (_anchor # {} /\ r.i >= 1 /\ r.i <= finalRow(_anchor).i)
              => \E c \in covered : r.i \in c.folded

\* C10: an anchor call made after anchor returned true, with no add committed
\* since, returns false and inserts no row; and anchor inserts a row only
\* when some committed block has an index above the latest anchor's and at
\* most the head's.
C10_AnchorNeedsProgress ==
    [][/\ (\E k \in 1..MaxCalls, fault \in BOOLEAN : anchorInserted(k, fault)
              /\ ret'.again) => (ret'.out = "false" /\ _anchor' = _anchor)
       /\ (\E k \in 1..MaxCalls : anchorScanned(k) /\ ret'.again /\ ret' # ret)
              => ret'.out = "false"
       /\ _anchor' # _anchor =>
             \E r \in _chain :
                 /\ r.i > (IF _anchor = {} THEN 0 ELSE finalRow(_anchor).i)
                 /\ r.i <= blocks[currentBlock].index]_vars

---------------------------------------------------------------------------
(* Further properties of the ledger (SpecLedger) *)

\* C13: when add returns a digest, that digest is the one recomputed from the
\* new head and the one in the hash column of the row this add inserted, and
\* the row's index, previousHash, nonce and timestamp are the new head's.
C13_AddReturnsRowDigest ==
    [][(ret'.op = "add" /\ ret'.out = "value" /\ _chain' # _chain) =>
          LET h   == blocks'[currentBlock']
              row == CHOOSE r \in _chain' : r \notin _chain
          IN  /\ ret'.val = hash(h)
              /\ ret'.val = row.hash
              /\ row.i = h.index
              /\ row.previousHash = h.previousHash
              /\ row.nonce = h.nonce
              /\ row.timestamp = h.timestamp]_vars

\* C14: after initialize(true) on an empty store and any add calls, whenever
\* no add is suspended, length is the number of rows of the chain table.
\* (Stated for the runs in which the storage never fails.)
C14_LengthIsRowCount ==
    (phase = "ready" /\ currentBlock # NoBlock /\ addCalls = <<>>
        /\ restarts = 0 /\ faults = 0)
        => length = Cardinality(_chain)

sealedWith(b, n) ==
    build(blocks[b], blocks[currentBlock].index + 1, hash(blocks[currentBlock]), n)

\* C17: the search add runs on a block sealed with starting nonce r, under a
\* non-null prefix, returns the block with the least nonce >= r whose digest
\* starts with the prefix (r itself when it matches already), with the index,
\* previousHash, timestamp and data it was sealed with and a stored digest
\* equal to the recomputed one; under a null prefix the block comes back as
\* sealed; the search does not return only when no nonce >= r matches, and
\* then the head and the chain table never change again.
C17_SearchFindsLeastNonce ==
    [][/\ \A b \in Refs, r \in 0..(maxRandomNonce - 1) :
            /\ add(b, r) =>
                 LET s == sealedWith(b, r)
                     t == blocks'[b]
                 IN  IF powHashPrefix.null THEN t = s
                     ELSE /\ t.nonce >= r
                          /\ startsWith(t, powHashPrefix.str)
                          /\ \A n \in r..(t.nonce - 1) :
                                ~startsWith(sealedWith(b, n), powHashPrefix.str)
                          /\ t.index = s.index /\ t.previousHash = s.previousHash
                          /\ t.timestamp = s.timestamp /\ t.data = s.data
                          /\ t.object.hash = hash(t)
                          /\ t = sealedWith(b, t.nonce)
            /\ addHangs(b, r) =>
                 /\ ~powHashPrefix.null
                 /\ \A n \in r..(r + 2 * HexBase) :
                       ~startsWith(sealedWith(b, n), powHashPrefix.str)
                 /\ hung'
       /\ hung => (hung' /\ currentBlock' = currentBlock /\ _chain' = _chain
                      /\ ret' = ret)]_vars

\* a suspended add whose search passed over more than one nonce, and a search
\* that never returns
C17_Witness ==
    /\ ~powHashPrefix.null
    /\ \E k \in DOMAIN addCalls :
          /\ addCalls[k].row.nonce > addCalls[k].start + 1
          /\ rowHasPrefix(addCalls[k].row)

C17_WitnessHung == hung

---------------------------------------------------------------------------
(* Further properties of the anchor compactor (SpecAnchor) *)

\* a step of anchor, a step of add
anchorStep ==
    \/ anchor
    \/ \E k \in 1..MaxCalls : anchorScanned(k)
    \/ \E k \in 1..MaxCalls, fault \in BOOLEAN : anchorInserted(k, fault)

addStep ==
    \/ \E b \in Refs, r \in 0..(maxRandomNonce - 1) : add(b, r)
    \/ \E k \in 1..MaxCalls, fault \in BOOLEAN : addSettled(k, fault)

\* C16: no step of anchor changes the chain table, the head reference or a
\* Block object; no step of add changes the anchor table; and every row of
\* either table stays in it, as it is.
C16_OwnershipAppendOnly ==
    [][/\ anchorStep => (_chain' = _chain /\ currentBlock' = currentBlock
                            /\ blocks' = blocks)
       /\ addStep => _anchor' = _anchor
       /\ _chain \subseteq _chain'
       /\ _anchor \subseteq _anchor']_vars

\* both tables hold rows that add and anchor inserted while the other was suspended
C16_Witness ==
    /\ Cardinality(_chain) >= 3
    /\ Cardinality(_anchor) >= 2
    /\ \E c \in covered : c.i \notin c.folded \/ c.lo # 1

\* C18: the genesis row is in no anchor's range; an anchor call whose scan
\* runs on a chain table that holds the genesis row alone returns false and
\* inserts nothing; every anchor row has an index of at least 1, and the
\* index of a row being inserted is above that of every row already there.
C18_AnchorsAboveGenesisAscending ==
    [][/\ \A c \in covered' : 0 \notin c.folded
       /\ \A r \in _anchor' : r.i >= 1
       /\ \A k \in 1..MaxCalls :
             (anchorScanned(k) /\ (anchorCalls[k].upTo = 0 \/ \A r \in _chain : r.i = 0))
                => /\ ret'.op = "anchor" /\ ret'.out = "false"
                   /\ Len(anchorCalls') = Len(anchorCalls) - 1
                   /\ _anchor' = _anchor
       /\ \A r \in _anchor' \ _anchor : \A q \in _anchor : r.i > q.i]_vars

---------------------------------------------------------------------------
(* Properties of Block objects (SpecBlock) *)

\* C11: once the data field of a sealed block is assigned another payload,
\* the digest recomputed for the block differs from the digest it carries,
\* isValid of the block against its predecessor is false, and isValid of its
\* successor against it is false.
C11_TamperDetected ==
    [][\A b \in Refs, d \in 0..MaxPayload : Tamper(b, d) =>
          LET t == blocks'[b]
          IN  /\ hash(t) # t.object.hash
              /\ \A p \in Refs :
                    (blocks'[p].built /\ p # b /\ blocks'[p].index + 1 = t.index)
                        => ~isValid(t, blocks'[p])
              /\ \A n \in Refs :
                    (blocks'[n].built /\ n # b /\ blocks'[n].index = t.index + 1)
                        => ~isValid(blocks'[n], t)]_vars

---------------------------------------------------------------------------
(* Properties of the peer's receive side (SpecPeer) *)

\* The complete messages of a byte stream, in order, and the bytes behind the
\* last of them: a message is the header word, then 24 + length bytes; a byte
\* that starts no header word belongs to no message; a message that is not
\* complete yet ends the list.
RECURSIVE framed(_, _, _, _)
framed(stream, pos, last, out) ==
    IF pos >= Len(stream)
    THEN [messages |-> out, kept |-> SubSeq(stream, last + 1, Len(stream))]
    ELSE IF pos + 4 <= Len(stream) /\ SubSeq(stream, pos + 1, pos + 4) = _header
    THEN IF /\ pos + 20 <= Len(stream)
            /\ pos + 24 + UInt32(SubSeq(stream, pos + 17, pos + 20)) <= Len(stream)
         THEN LET end == pos + 24 + UInt32(SubSeq(stream, pos + 17, pos + 20))
              IN  framed(stream, end, end, Append(out, SubSeq(stream, pos + 1, end)))
         ELSE [messages |-> out, kept |-> SubSeq(stream, last + 1, Len(stream))]
    ELSE framed(stream, pos + 1, last, out)

\* C19: while no chunk has exceeded the buffer, the messages handed to
\* _processMessage are the complete messages of the bytes received, each once
\* and in order, however the bytes were split into chunks; the buffer starts
\* with the bytes behind the last complete message and _inCursor is their number.
C19_FramingIndependentOfChunks ==
    ~overflowed =>
        LET f == framed(received, 0, 0, <<>>)
        IN  /\ handed = f.messages
            /\ _inCursor = Len(f.kept)
            /\ SubSeq(_inBuffer, 1, _inCursor) = f.kept

\* C20: a chunk that does not fit is not copied and 'error' is emitted; from
\* then on, until connect, every data event emits 'error' and hands over no
\* message; in every state without such a chunk since connect, _inCursor is
\* between 0 and the buffer size.
C20_OverflowLatchesUntilConnect ==
    [][/\ \A n \in 0..MaxWire :
            _socketEventData(n) =>
               /\ n + _inCursor > _bufferSize =>
                     (_inBuffer' = _inBuffer /\ dataRet'.error)
               /\ overflowed => (dataRet'.error /\ handed' = handed)
       /\ connect => (_inCursor' = 0 /\ _inBuffer' = alloc(_bufferSize))
       /\ ~overflowed' => (0 <= _inCursor' /\ _inCursor' <= _bufferSize)]_vars

====
